---- MODULE Spec2Model ----
(***************************************************************************)
(* CMS notifier (src/main.py): a polling loop that, for every course,      *)
(* fetches the course page, compares the parsed description and file list  *)
(* with the versions persisted in two JSON files, persists what changed    *)
(* and sends notifications through an HTTP endpoint with retries.          *)
(***************************************************************************)
EXTENDS Integers, Sequences, FiniteSets, TLC

\* ------------------------------------------------------------------ bounds

\* Number of courses returned by fetch_all_courses.
NumCourses == 2

\* ------------------------------------------------------------- input sets

\* Python's None (parse_description returns it when the element is missing).
None == "<None>"

\* Descriptions the page can yield: absent, empty, and two texts.
FetchedDescriptions == {None, "", "Welcome", "Syllabus v2"}

aLecture == [filename |-> "a.pdf", category |-> "Lecture"]
aTutorial == [filename |-> "a.pdf", category |-> "Tutorial"]
bTutorial == [filename |-> "b.pdf", category |-> "Tutorial"]

\* File lists the page can yield.  parse_files does not remove duplicate
\* filenames, so a list with the same filename twice is a possible input.
FetchedFileLists ==
    { <<>>, <<aLecture>>, <<aTutorial>>, <<aLecture, bTutorial, aTutorial>> }

\* What the summarization service can answer: the call raises, or returns a
\* content that is a sequence of lines; a line is its recognised prefix and
\* the stripped text left once the prefix is removed.
AIResponses ==
    { [raises |-> TRUE, content |-> <<>>],
      [raises |-> FALSE, content |-> <<>>],
      [raises |-> FALSE, content |-> <<[prefix |-> "", text |-> "Sorry, no summary"]>>],
      [raises |-> FALSE, content |-> <<[prefix |-> "TITLE:", text |-> "Exam moved"]>>],
      [raises |-> FALSE, content |-> <<[prefix |-> "BODY:", text |-> "The exam is on Monday"]>>],
      [raises |-> FALSE, content |-> <<[prefix |-> "TITLE:", text |-> "Exam moved"],
                                       [prefix |-> "BODY:", text |-> "The exam is on Monday"]>>] }

\* ------------------------------------------------------------- the courses

\* course_id of the k-th course of the list.
courses == [k \in 1..NumCourses |-> k]

\* str(course_id): the key of a course in the persisted mappings.
CourseKey(course_id) == ToString(course_id)

Keys == {CourseKey(courses[k]) : k \in 1..NumCourses}

\* ------------------------------------------------------ python truthiness

\* bool(x) of a str | None.
TruthyStr(x) == x # None /\ x # ""

\* bool(x) of a list.
TruthyList(x) == x # <<>>

\* ---------------------------------------------------------------- state

VARIABLES
    pc,                    \* position of the process
    exitCause,             \* why the process ended ("" while it runs)
    raised,                \* the exception the last turn ended with, until
                           \* a page is fetched again ("" when none)
    NOTIFICATION_ENDPOINT, \* configured (truthy) or not
    NOTIFICATIONS_API_KEY, \* configured (truthy) or not
    SEND_NOTIFICATIONS,
    USE_OPENAI,
    description_versions,  \* description_versions.json
    files_versions,        \* files_versions.json
    idx,                   \* index of the course being processed
    new_description, new_files, old_description, old_files,
    added_files, file_idx, \* notify_files_change: the list and loop index
    send_args,             \* title, body, category of the send in progress
    send_ret,              \* where the send in progress returns to
    attempt,               \* loop variable of send_notification
    calls,                 \* sends called in the current turn, in order
    saved,                 \* records written in the current turn
    posts,                 \* POST attempts of the send in progress, or of the
                           \* send that just returned to its caller
    failures,              \* of which failed
    sleeps,                \* delays slept by that send
    outcome                \* how that send ended ("" while it runs)

vars ==
    << pc, exitCause, raised, NOTIFICATION_ENDPOINT, NOTIFICATIONS_API_KEY,
       SEND_NOTIFICATIONS, USE_OPENAI, description_versions, files_versions,
       idx, new_description, new_files, old_description, old_files,
       added_files, file_idx, send_args, send_ret, attempt, calls, saved,
       posts, failures, sleeps, outcome >>

config == << NOTIFICATION_ENDPOINT, NOTIFICATIONS_API_KEY, SEND_NOTIFICATIONS, USE_OPENAI >>
store == << description_versions, files_versions >>
locals == << new_description, new_files, old_description, old_files >>
files_loop == << added_files, file_idx >>
send_state == << send_args, send_ret, attempt >>
send_history == << posts, failures, sleeps, outcome >>

\* ------------------------------------------------------- persisted state

\* A versions file: missing, unparsable ("corrupt") or a JSON object ("ok")
\* whose data maps each key to its record, when it has one.
NoDescriptionRecord == [has |-> FALSE, content |-> ""]
NoFilesRecord == [has |-> FALSE, content |-> <<>>]
EmptyDescriptions == [k \in Keys |-> NoDescriptionRecord]
EmptyFiles == [k \in Keys |-> NoFilesRecord]

\* load_version(filename) or {}: the mapping read, {} when the file is
\* missing or does not parse.
load_version(file, empty) == IF file.state = "ok" THEN file.data ELSE empty

\* save_version(versions, filename): the file after json.dump.
save_version(versions) == [state |-> "ok", data |-> versions]

load_description_version(course_id) ==
    LET versions == load_version(description_versions, EmptyDescriptions)
        course_data == versions[CourseKey(course_id)]
    IN  IF course_data.has THEN course_data.content ELSE ""

load_files_version(course_id) ==
    LET versions == load_version(files_versions, EmptyFiles)
        course_data == versions[CourseKey(course_id)]
    IN  IF course_data.has THEN course_data.content ELSE <<>>

\* Variant: the mapping is built anew instead of loaded.
save_description_version_fresh(course_id, description) ==
    save_version([EmptyDescriptions EXCEPT ![CourseKey(course_id)] =
                      [has |-> TRUE, content |-> description]])

save_description_version(course_id, description) ==
    LET versions == load_version(description_versions, EmptyDescriptions)
    IN  save_version([versions EXCEPT ![CourseKey(course_id)] =
                          [has |-> TRUE, content |-> description]])

save_files_version(course_id, files) ==
    LET versions == load_version(files_versions, EmptyFiles)
    IN  save_version([versions EXCEPT ![CourseKey(course_id)] =
                          [has |-> TRUE, content |-> files]])

\* ------------------------------------------------------------ diff engine

GenericUpdate ==
    << "Description Updated",
       "Course description has been updated. Check the course page for details." >>

\* The value the parsing loop leaves in title / body: the text of the last
\* line that starts with the prefix, "" when there is none.
ParsedField(content, prefix) ==
    LET hits == SelectSeq(content, LAMBDA line : line.prefix = prefix)
    IN  IF hits = <<>> THEN "" ELSE hits[Len(hits)].text

\* Variant: the fallback is taken only when both fields are missing.
Summarize_needsOne(use_openai, ai) ==
    IF ~use_openai THEN GenericUpdate
    ELSE IF ai.raises THEN GenericUpdate
    ELSE IF ai.content = <<>> THEN GenericUpdate
    ELSE LET title == ParsedField(ai.content, "TITLE:")
             body == ParsedField(ai.content, "BODY:")
         IN  IF title = "" /\ body = "" THEN GenericUpdate ELSE <<title, body>>

\* The try block of diff_description: every failure ends in the except
\* clause, which returns the generic message.
Summarize(use_openai, ai) ==
    IF ~use_openai THEN GenericUpdate
    ELSE IF ai.raises THEN GenericUpdate
    ELSE IF ai.content = <<>> THEN GenericUpdate
    ELSE LET title == ParsedField(ai.content, "TITLE:")
             body == ParsedField(ai.content, "BODY:")
         IN  IF title = "" \/ body = "" THEN GenericUpdate ELSE <<title, body>>

\* Variant: the "created" copy for any missing old description.
diff_description_createdFirst(old_description_, new_description_, use_openai, ai) ==
    IF ~TruthyStr(old_description_)
    THEN << "New Course Created",
            "A new course has been created. Check the course page for details." >>
    ELSE IF ~TruthyStr(new_description_)
    THEN << "Description Removed", "The course description has been removed." >>
    ELSE Summarize(use_openai, ai)

\* Variant: the test of the new description comes first.
diff_description_removedFirst(old_description_, new_description_, use_openai, ai) ==
    IF ~TruthyStr(new_description_)
    THEN << "Description Removed", "The course description has been removed." >>
    ELSE IF ~TruthyStr(old_description_)
    THEN << "New Description Added",
            "Description has been added. Check the course page for details." >>
    ELSE Summarize(use_openai, ai)

diff_description(old_description_, new_description_, use_openai, ai) ==
    IF ~TruthyStr(old_description_) /\ ~TruthyStr(new_description_)
    THEN << "New Course Created",
            "A new course has been created. Check the course page for details." >>
    ELSE IF ~TruthyStr(old_description_)
    THEN << "New Description Added",
            "Description has been added. Check the course page for details." >>
    ELSE IF ~TruthyStr(new_description_)
    THEN << "Description Removed", "The course description has been removed." >>
    ELSE Summarize(use_openai, ai)

\* Keys of {f["filename"]: f for f in files}: the filenames in the order of
\* their first occurrence.
RECURSIVE DictKeys(_)
DictKeys(files) ==
    IF files = <<>> THEN <<>>
    ELSE LET front == DictKeys(SubSeq(files, 1, Len(files) - 1))
             name == files[Len(files)].filename
         IN  IF \E k \in 1..Len(front) : front[k] = name
             THEN front ELSE Append(front, name)

\* Value of that dict at a key: the last entry with the filename.
DictValue(files, name) ==
    LET last == CHOOSE k \in 1..Len(files) :
                    /\ files[k].filename = name
                    /\ \A j \in (k + 1)..Len(files) : files[j].filename # name
    IN  files[last]

Filenames(files) == {files[k].filename : k \in 1..Len(files)}

\* Variant: no filter on the old filenames.
diff_files_all(old_files_, new_files_) == new_files_

\* Variant: entries compared whole, category included.
diff_files_byEntry(old_files_, new_files_) ==
    SelectSeq(new_files_,
              LAMBDA f : \A k \in 1..Len(old_files_) : old_files_[k] # f)

diff_files(old_files_, new_files_) ==
    LET new_keys == DictKeys(new_files_)
        added_keys == SelectSeq(new_keys, LAMBDA f : f \notin Filenames(old_files_))
    IN  [k \in 1..Len(added_keys) |-> DictValue(new_files_, added_keys[k])]

\* --------------------------------------------------------------- dispatch

max_retries == 5
base_delay == 1
max_delay == 300

RECURSIVE Pow2(_)
Pow2(n) == IF n = 0 THEN 1 ELSE 2 * Pow2(n - 1)

Min(a, b) == IF a <= b THEN a ELSE b

\* Variant: the exponent counts attempts from 1.
BackoffDelay_next(attempt_) == Min(base_delay * Pow2(attempt_ + 1), max_delay)

\* delay = min(base_delay * (2**attempt), max_delay)
BackoffDelay(attempt_) == Min(base_delay * Pow2(attempt_), max_delay)

\* Variant: the last attempt is taken to be the one before.
IsLastAttempt_early(attempt_) == attempt_ = max_retries - 2

\* if attempt == max_retries - 1
IsLastAttempt(attempt_) == attempt_ = max_retries - 1

NoArgs == [course |-> 0, title |-> "", body |-> "", category |-> ""]

\* ------------------------------------------------------------ exceptions

\* What a turn can raise before the comparison: requests.get failing,
\* parse_files indexing an empty findall, exit() on a 401 response.
PageExceptions == {"ConnectionError", "IndexError", "SystemExit"}

\* Variant: a handler for network errors only.
except_RequestException(exc) == exc = "ConnectionError"

\* except Exception: SystemExit derives from BaseException only.
except_Exception(exc) == exc # "SystemExit"

\* ------------------------------------------------------------------ Init

Init ==
    /\ pc = "startup"
    /\ exitCause = ""
    /\ raised = ""
    /\ NOTIFICATION_ENDPOINT \in BOOLEAN
    /\ NOTIFICATIONS_API_KEY \in BOOLEAN
    /\ SEND_NOTIFICATIONS \in BOOLEAN
    /\ USE_OPENAI \in BOOLEAN
    /\ \E st \in {"missing", "corrupt"} :
          /\ description_versions = [state |-> st, data |-> EmptyDescriptions]
          /\ files_versions = [state |-> st, data |-> EmptyFiles]
    /\ idx = 1
    /\ new_description = None
    /\ new_files = <<>>
    /\ old_description = ""
    /\ old_files = <<>>
    /\ added_files = <<>>
    /\ file_idx = 0
    /\ send_args = NoArgs
    /\ send_ret = ""
    /\ attempt = 0
    /\ calls = <<>>
    /\ saved = {}
    /\ posts = 0
    /\ failures = 0
    /\ sleeps = <<>>
    /\ outcome = ""

\* --------------------------------------------------------------- startup

\* Lines 68-78: a missing required setting ends the process.
Startup ==
    /\ pc = "startup"
    /\ IF NOTIFICATION_ENDPOINT /\ NOTIFICATIONS_API_KEY
       THEN pc' = "fetch_all_courses" /\ exitCause' = ""
       ELSE pc' = "exited" /\ exitCause' = "config"
    /\ UNCHANGED << raised, config, store, idx, locals, files_loop, send_state,
                    calls, saved, send_history >>

\* fetch_all_courses and the check of its result: a 401 or an empty course
\* list exits, an error of requests.get is not caught.
FetchAllCourses ==
    /\ pc = "fetch_all_courses"
    /\ \E r \in {"ok", "401", "no courses", "error"} :
          IF r = "ok"
          THEN pc' = "fetch_page" /\ exitCause' = ""
          ELSE pc' = "exited"
               /\ exitCause' = (IF r = "401" THEN "auth"
                                ELSE IF r = "error" THEN "uncaught" ELSE r)
    /\ idx' = 1
    /\ UNCHANGED << raised, config, store, locals, files_loop, send_state,
                    calls, saved, send_history >>

\* ------------------------------------------------------- the polling loop

\* Variant: no test of new_description.
DescriptionGuard_noTruthy(old_description_, new_description_) ==
    old_description_ # new_description_

\* Variant: no comparison with the stored description.
DescriptionGuard_noCompare(old_description_, new_description_) ==
    TruthyStr(new_description_)

\* Line 436: if new_description and old_description != new_description
DescriptionGuard(old_description_, new_description_) ==
    TruthyStr(new_description_) /\ old_description_ # new_description_

\* Variant: no test of new_files.
FilesGuard_noTruthy(old_files_, new_files_) == old_files_ # new_files_

\* Line 447: if new_files and old_files != new_files
FilesGuard(old_files_, new_files_) ==
    TruthyList(new_files_) /\ old_files_ # new_files_

\* The next iteration of the for loop, or the sleep after the last course.
\* The locals and the records of the turn are those of the turn that ended.
NextCourse ==
    /\ IF idx < NumCourses
       THEN idx' = idx + 1 /\ pc' = "fetch_page"
       ELSE idx' = idx /\ pc' = "sleep"
    /\ new_description' = None
    /\ new_files' = <<>>
    /\ old_description' = ""
    /\ old_files' = <<>>
    /\ added_files' = <<>>
    /\ file_idx' = 0
    /\ send_args' = NoArgs
    /\ send_ret' = ""
    /\ attempt' = 0
    /\ calls' = <<>>
    /\ saved' = {}
    /\ posts' = 0
    /\ failures' = 0
    /\ sleeps' = <<>>
    /\ outcome' = ""

\* Lines 425-434: fetch the page, parse it, load the stored versions.
FetchPage ==
    /\ pc = "fetch_page"
    /\ \/ \E exc \in PageExceptions :
             /\ raised' = exc
             /\ IF except_Exception(exc)
                THEN pc' = "except" /\ exitCause' = ""
                ELSE pc' = "exited" /\ exitCause' = "auth"
             /\ UNCHANGED locals
       \/ \E d \in FetchedDescriptions, f \in FetchedFileLists :
             /\ new_description' = d
             /\ new_files' = f
             /\ old_description' = load_description_version(courses[idx])
             /\ old_files' = load_files_version(courses[idx])
             /\ pc' = "check_description"
             /\ raised' = ""
             /\ UNCHANGED exitCause
    /\ UNCHANGED << config, store, idx, files_loop, send_state, calls, saved,
                    send_history >>

\* A call of send_notification(title, body, category, url) from the turn.
CallSend(title, body, category, ret) ==
    /\ send_args' = [course |-> courses[idx], title |-> title, body |-> body,
                     category |-> category]
    /\ send_ret' = ret
    /\ calls' = Append(calls, send_args')
    /\ attempt' = 0
    /\ posts' = 0
    /\ failures' = 0
    /\ sleeps' = <<>>
    /\ outcome' = ""
    /\ pc' = "send_notification"

\* The caller is past the return of a send: nothing is in progress.
NoSend ==
    /\ send_args' = NoArgs
    /\ send_ret' = ""
    /\ attempt' = 0
    /\ posts' = 0
    /\ failures' = 0
    /\ sleeps' = <<>>
    /\ outcome' = ""

\* Variant: the description branch notifies without saving the new version.
CheckDescription_noSave ==
    /\ pc = "check_description"
    /\ IF DescriptionGuard(old_description, new_description)
       THEN /\ UNCHANGED << description_versions, saved >>
            /\ \E ai \in AIResponses :
                  LET msg == diff_description(old_description, new_description,
                                              USE_OPENAI, ai)
                  IN  CallSend(msg[1], msg[2], "cms-description", "check_files")
       ELSE /\ pc' = "check_files"
            /\ UNCHANGED << description_versions, saved, send_state, calls,
                            send_history >>
    /\ UNCHANGED << exitCause, raised, config, files_versions, idx, locals,
                    files_loop >>

\* Lines 436-445: the description branch, up to the call of send_notification
\* made by notify_description_change.
CheckDescription ==
    /\ pc = "check_description"
    /\ IF DescriptionGuard(old_description, new_description)
       THEN /\ description_versions' =
                   save_description_version(courses[idx], new_description)
            /\ saved' = saved \cup {"description"}
            /\ \E ai \in AIResponses :
                  LET msg == diff_description(old_description, new_description,
                                              USE_OPENAI, ai)
                  IN  CallSend(msg[1], msg[2], "cms-description", "check_files")
       ELSE /\ pc' = "check_files"
            /\ UNCHANGED << description_versions, saved, send_state, calls,
                            send_history >>
    /\ UNCHANGED << exitCause, raised, config, files_versions, idx, locals,
                    files_loop >>

\* The body of a file notification: f"{file['filename']} ({file['category']})"
FileBody(file) == file.filename \o " (" \o file.category \o ")"

\* Lines 447-452 and 400-401: the files branch, up to the first send.
CheckFiles ==
    /\ pc = "check_files"
    /\ IF FilesGuard(old_files, new_files)
       THEN /\ files_versions' = save_files_version(courses[idx], new_files)
            /\ saved' = saved \cup {"files"}
            /\ added_files' = diff_files(old_files, new_files)
            /\ IF added_files' # <<>>
               THEN /\ file_idx' = 1
                    /\ CallSend("New file just dropped", FileBody(added_files'[1]),
                                "cms-files", "next_file")
               ELSE /\ file_idx' = 0
                    /\ pc' = "turn_done"
                    /\ NoSend
                    /\ UNCHANGED calls
       ELSE /\ pc' = "turn_done"
            /\ NoSend
            /\ UNCHANGED << files_versions, saved, files_loop, calls >>
    /\ UNCHANGED << exitCause, raised, config, description_versions, idx, locals >>

\* Line 401: the for loop of notify_files_change after a send returned.
NextFile ==
    /\ pc = "next_file"
    /\ IF file_idx < Len(added_files)
       THEN /\ file_idx' = file_idx + 1
            /\ CallSend("New file just dropped", FileBody(added_files[file_idx + 1]),
                        "cms-files", "next_file")
       ELSE /\ pc' = "turn_done"
            /\ NoSend
            /\ UNCHANGED << file_idx, calls >>
    /\ UNCHANGED << exitCause, raised, config, store, idx, locals, added_files,
                    saved >>

\* Variant: no test of the endpoint.
SendNotification_noEndpointGuard ==
    /\ pc = "send_notification"
    /\ IF ~SEND_NOTIFICATIONS
       THEN outcome' = "Disabled" /\ pc' = send_ret
       ELSE outcome' = "" /\ pc' = "post"
    /\ attempt' = 0
    /\ UNCHANGED << exitCause, raised, config, store, idx, locals, files_loop,
                    send_args, send_ret, calls, saved, posts, failures, sleeps >>

\* Variant: no test of SEND_NOTIFICATIONS.
SendNotification_noDisabledGuard ==
    /\ pc = "send_notification"
    /\ IF ~NOTIFICATION_ENDPOINT
       THEN outcome' = "NoEndpoint" /\ pc' = send_ret
       ELSE outcome' = "" /\ pc' = "post"
    /\ attempt' = 0
    /\ UNCHANGED << exitCause, raised, config, store, idx, locals, files_loop,
                    send_args, send_ret, calls, saved, posts, failures, sleeps >>

\* Lines 331-348: the early returns of send_notification.
SendNotification ==
    /\ pc = "send_notification"
    /\ IF ~NOTIFICATION_ENDPOINT
       THEN outcome' = "NoEndpoint" /\ pc' = send_ret
       ELSE IF ~SEND_NOTIFICATIONS
       THEN outcome' = "Disabled" /\ pc' = send_ret
       ELSE outcome' = "" /\ pc' = "post"
    /\ attempt' = 0
    /\ UNCHANGED << exitCause, raised, config, store, idx, locals, files_loop,
                    send_args, send_ret, calls, saved, posts, failures, sleeps >>

\* Variant: no return after a successful attempt.
PostOk_noReturn ==
    /\ pc = "post"
    /\ posts' = posts + 1
    /\ outcome' = "Delivered"
    /\ IF attempt + 1 < max_retries
       THEN attempt' = attempt + 1 /\ pc' = "post"
       ELSE attempt' = attempt /\ pc' = send_ret
    /\ UNCHANGED << exitCause, raised, config, store, idx, locals, files_loop,
                    send_args, send_ret, calls, saved, failures, sleeps >>

\* Lines 355-363: an attempt answered with a 2xx status.
PostOk ==
    /\ pc = "post"
    /\ posts' = posts + 1
    /\ outcome' = "Delivered"
    /\ pc' = send_ret
    /\ UNCHANGED << exitCause, raised, config, store, idx, locals, files_loop,
                    send_state, calls, saved, failures, sleeps >>

\* Lines 355-361 and 365-377: an attempt that raises a RequestException
\* (raise_for_status on a non-2xx status, a network error, a timeout).
PostFail ==
    /\ pc = "post"
    /\ posts' = posts + 1
    /\ failures' = failures + 1
    /\ IF IsLastAttempt(attempt)
       THEN /\ outcome' = "Dropped"
            /\ pc' = send_ret
            /\ UNCHANGED << attempt, sleeps >>
       ELSE /\ sleeps' = Append(sleeps, BackoffDelay(attempt))
            /\ IF attempt + 1 < max_retries
               THEN attempt' = attempt + 1 /\ pc' = "post" /\ outcome' = ""
               ELSE attempt' = attempt /\ pc' = send_ret /\ outcome' = "LoopEnded"
    /\ UNCHANGED << exitCause, raised, config, store, idx, locals, files_loop,
                    send_args, send_ret, calls, saved >>

\* Variant: the turn ends while notify_files_change still has files to send.
EndTurn_early ==
    /\ pc \in {"next_file", "turn_done"}
    /\ NextCourse
    /\ UNCHANGED << exitCause, raised, config, store >>

\* The end of the try body (line 452): on to the next course.
EndTurn ==
    /\ pc = "turn_done"
    /\ NextCourse
    /\ UNCHANGED << exitCause, raised, config, store >>

\* Variant: the handler leaves the for loop (break) instead of continuing.
Except_break ==
    /\ pc = "except"
    /\ pc' = "sleep"
    /\ UNCHANGED << exitCause, raised, config, store, idx, locals, files_loop,
                    send_state, calls, saved, send_history >>

\* Lines 454-456: the handler prints the error and continues.
Except ==
    /\ pc = "except"
    /\ NextCourse
    /\ UNCHANGED << exitCause, raised, config, store >>

\* Lines 458-459: sleep POLLING_INTERVAL, then a new cycle.
Sleep ==
    /\ pc = "sleep"
    /\ pc' = "fetch_page"
    /\ idx' = 1
    /\ UNCHANGED << exitCause, raised, config, store, locals, files_loop,
                    send_state, calls, saved, send_history >>

Next ==
    \/ Startup
    \/ FetchAllCourses
    \/ FetchPage
    \/ CheckDescription
    \/ SendNotification
    \/ PostOk
    \/ PostFail
    \/ CheckFiles
    \/ NextFile
    \/ EndTurn
    \/ Except
    \/ Sleep

Spec == Init /\ [][Next]_vars

\* ------------------------------------------------------- derived values

\* The course of the current turn.
current_course == courses[idx]

\* Positions of a turn at which the page has been fetched and parsed.
InTurn ==
    pc \in {"check_description", "send_notification", "post", "check_files",
            "next_file", "turn_done"}

\* Positions inside send_notification.
InSend == pc \in {"send_notification", "post"}

\* An absent description and an empty one are the same text.
Text(d) == IF TruthyStr(d) THEN d ELSE ""

DescriptionCalls == SelectSeq(calls, LAMBDA c : c.category = "cms-description")
FileCalls == SelectSeq(calls, LAMBDA c : c.category = "cms-files")

\* Filenames of the fetched list that the stored list does not have.
AddedNames == Filenames(new_files) \ Filenames(old_files)

\* The record of a key as load_version gives it.
DescriptionRecord(k) == load_version(description_versions, EmptyDescriptions)[k]
FilesRecord(k) == load_version(files_versions, EmptyFiles)[k]

\* ------------------------------------------------------------------ C1

\* C1: an exception raised in a course's turn is handled in that turn: the
\* handler goes on with the next course of the cycle, or with the sleep that
\* precedes the next cycle; once the loop runs, the process ends only by the
\* exit() of the fetch on a 401 response; nothing that fails inside the
\* comparison, the summarization or the dispatch reaches the handler or ends
\* the process.
C1_ExceptionIsolated ==
    [][ /\ pc = "except" =>
              /\ idx < NumCourses => pc' = "fetch_page" /\ idx' = idx + 1
              /\ idx = NumCourses => pc' = "sleep"
        /\ pc = "sleep" => pc' = "fetch_page" /\ idx' = 1
        /\ (pc = "fetch_page" /\ pc' # "check_description" /\ raised' # "SystemExit")
              => pc' = "except"
        /\ (pc' = "exited" /\ pc \notin {"startup", "fetch_all_courses"})
              => pc = "fetch_page" /\ raised' = "SystemExit"
        /\ (InTurn => pc' \notin {"except", "exited"})
      ]_vars

\* The turn of the first course raised, and the second course is next.
C1_Witness == pc = "fetch_page" /\ idx = 2 /\ raised = "IndexError"

\* ------------------------------------------------------------------ C2

C3_DescriptionChangeNotified ==
    (pc = "turn_done" /\ Text(new_description) # old_description) =>
        /\ load_description_version(current_course) = Text(new_description)
        /\ Len(DescriptionCalls) = 1

\* ------------------------------------------------------------------ C4

\* C4: at the end of a turn in which k >= 1 filenames of the fetched list
\* are not in the stored list, exactly k file sends were called, one for
\* each such filename with the body made of the filename and the category
\* of an entry of the fetched list, and the stored list is the fetched list.
C4_OneSendPerAddedFile ==
    (pc = "turn_done" /\ AddedNames # {}) =>
        /\ Len(FileCalls) = Cardinality(AddedNames)
        /\ \A n \in AddedNames :
              /\ \E k \in 1..Len(new_files) :
                    /\ new_files[k].filename = n
                    /\ \E c \in 1..Len(FileCalls) :
                          FileCalls[c].body = FileBody(new_files[k])
              /\ Cardinality({c \in 1..Len(FileCalls) :
                     \E k \in 1..Len(new_files) :
                        /\ new_files[k].filename = n
                        /\ FileCalls[c].body = FileBody(new_files[k])}) = 1
        /\ \A c \in 1..Len(FileCalls) : FileCalls[c].course = current_course
        /\ load_files_version(current_course) = new_files

\* Two files were added and both were notified.
C4_Witness ==
    /\ pc = "turn_done"
    /\ Cardinality(AddedNames) = 2
    /\ Len(FileCalls) = 2
    /\ load_files_version(current_course) = new_files

\* ------------------------------------------------------------------ C5

\* C5 as stated: at the end of a turn that wrote a record, the description
\* changed (absent and empty being the same text) or a filename was added.
C5_WrittenOnlyOnReportedChange ==
    (pc = "turn_done" /\ saved # {}) =>
        \/ Text(new_description) # old_description
        \/ AddedNames # {}

\* C5 as amended: a step changes the description record of a key only in the
\* turn of that course, when the fetched description is non-empty and
\* differs from the one loaded, and the record then holds it; it changes the
\* files record of a key only in the turn of that course, when the fetched
\* list is non-empty and differs from the list loaded in any way, and the
\* record then holds it; no step removes a record.
C5_WrittenOnlyWhenFetchedDiffers ==
    [][ \A k \in Keys :
          /\ DescriptionRecord(k)' # DescriptionRecord(k) =>
                /\ k = CourseKey(current_course)
                /\ pc = "check_description"
                /\ new_description \notin {None, ""}
                /\ new_description # old_description
                /\ DescriptionRecord(k)' = [has |-> TRUE, content |-> new_description]
          /\ FilesRecord(k)' # FilesRecord(k) =>
                /\ k = CourseKey(current_course)
                /\ pc = "check_files"
                /\ new_files # <<>>
                /\ new_files # old_files
                /\ FilesRecord(k)' = [has |-> TRUE, content |-> new_files]
          /\ DescriptionRecord(k).has => DescriptionRecord(k)'.has
          /\ FilesRecord(k).has => FilesRecord(k)'.has
      ]_vars

\* The files record was overwritten in a turn that added no filename and
\* left the description as it was.
C5_Witness ==
    /\ pc = "turn_done"
    /\ saved = {"files"}
    /\ AddedNames = {}
    /\ Text(new_description) = old_description
    /\ load_files_version(current_course) = new_files
    /\ old_files # new_files

\* ------------------------------------------------------------------ C6

\* The turn of a course with nothing stored that fetched "Welcome" and no
\* file has ended.
FirstRunDone ==
    /\ pc = "turn_done"
    /\ old_description = "" /\ old_files = <<>>
    /\ new_description = "Welcome" /\ new_files = <<>>

\* C6 as stated: that turn called exactly one send, the description event
\* titled "New Course Created", and the store holds the fetched snapshot.
C6_FirstRunCreated ==
    FirstRunDone =>
        /\ Len(calls) = 1
        /\ calls[1].category = "cms-description"
        /\ calls[1].title = "New Course Created"
        /\ load_description_version(current_course) = "Welcome"
        /\ load_files_version(current_course) = <<>>

\* C6 as amended: that turn called exactly one send, the description event
\* of kind Added, titled "New Description Added", and no file send; the
\* store then gives "Welcome" and the empty file list for the course.
C6_FirstRunAdded ==
    FirstRunDone =>
        /\ calls = << [course |-> current_course,
                       title |-> "New Description Added",
                       body |-> "Description has been added. Check the course page for details.",
                       category |-> "cms-description"] >>
        /\ load_description_version(current_course) = "Welcome"
        /\ load_files_version(current_course) = <<>>

C6_Witness == FirstRunDone /\ Len(calls) = 1 /\ saved = {"description"}

\* ------------------------------------------------------------------ C7

\* C7: an attempt is made only while every earlier attempt of the send
\* failed and fewer than max_retries were made; a send has at most one
\* attempt answered 2xx, and at that attempt it has returned, with one sleep
\* for each failed attempt before it and none after.
C7_StopAtFirstSuccess ==
    /\ pc = "post" => posts = failures /\ posts < 5 /\ outcome = ""
    /\ posts - failures \in {0, 1}
    /\ posts - failures = 1 =>
          /\ outcome = "Delivered"
          /\ pc = send_ret /\ pc \in {"check_files", "next_file"}
          /\ Len(sleeps) = failures
    /\ outcome = "Delivered" => posts = failures + 1

\* Delivered at the third attempt.
C7_Witness == outcome = "Delivered" /\ posts = 3 /\ failures = 2 /\ pc = "next_file"

\* ------------------------------------------------------------------ C8

\* C8 as stated: the i-th sleep of a send precedes attempt n = i + 1 and
\* lasts min(1 * 2^(n-1), 300); a send whose 5 attempts fail sleeps 1, 2, 4,
\* 8, 16.
C8_DelayBeforeAttempt ==
    /\ \A i \in 1..Len(sleeps) : sleeps[i] = Min(Pow2((i + 1) - 1), 300)
    /\ outcome = "Dropped" => sleeps = <<1, 2, 4, 8, 16>>

\* C8 as amended: the sleep after failed attempt n, for n = 1..4, lasts
\* min(1 * 2^(n-1), 300): the sleeps of a send are a prefix of 1, 2, 4, 8,
\* one for each failed attempt but the fifth; nothing is slept before the
\* first attempt nor after the last, and no sleep exceeds 300.
C8_DelayAfterAttempt ==
    /\ Len(sleeps) <= 4
    /\ sleeps = SubSeq(<<1, 2, 4, 8>>, 1, Len(sleeps))
    /\ \A i \in 1..Len(sleeps) : sleeps[i] <= 300
    /\ Len(sleeps) = IF failures = 5 THEN 4 ELSE failures
    /\ outcome = "Dropped" => sleeps = <<1, 2, 4, 8>>

C8_Witness == outcome = "Dropped" /\ sleeps = <<1, 2, 4, 8>>

\* ------------------------------------------------------------------ C9

\* C9: in a turn whose fetched description is the stored one (absent and
\* empty being the same text), no description send is called and the
\* description record is not written.
C9_EqualDescriptionNoEvent ==
    (InTurn /\ Text(new_description) = old_description) =>
        /\ DescriptionCalls = <<>>
        /\ "description" \notin saved
        /\ load_description_version(current_course) = old_description

\* A turn ended that fetched the stored text.
C9_Witness ==
    /\ pc = "turn_done"
    /\ new_description = "Welcome" /\ old_description = "Welcome"
    /\ calls = <<>>

\* ----------------------------------------------------------------- C10

\* The files branch of the turn has run.
FilesCompared == pc \in {"next_file", "turn_done"} \/ (InSend /\ send_ret = "next_file")

\* C10 as stated: the list diff_files returned to notify_files_change is
\* made of the entries of the new list whose filename is not a filename of
\* the old list, and a turn that adds no filename calls no file send.
C10_AddedEntries ==
    FilesCompared =>
        /\ "files" \in saved =>
              added_files =
                 SelectSeq(new_files, LAMBDA f : f.filename \notin Filenames(old_files))
        /\ AddedNames = {} => FileCalls = <<>>

\* Index of the first entry of a list with a filename.
FirstIndex(files, name) ==
    CHOOSE k \in 1..Len(files) :
        /\ files[k].filename = name
        /\ \A j \in 1..(k - 1) : files[j].filename # name

\* C10 as amended: diff_files returns one entry for each filename of the new
\* list that is not a filename of the old list: the last entry of the new
\* list with that filename, in the order in which the filenames first occur;
\* filenames of the old list, whatever their category in the new list, and
\* filenames missing from the new list give no entry, and a turn that adds no
\* filename calls no file send.
C10_AddedFilenames ==
    InTurn =>
        LET added == diff_files(old_files, new_files)
        IN  /\ {added[i].filename : i \in 1..Len(added)} = AddedNames
            /\ Len(added) = Cardinality(AddedNames)
            /\ \A i \in 1..Len(added) :
                  \E k \in 1..Len(new_files) :
                     /\ new_files[k] = added[i]
                     /\ \A j \in (k + 1)..Len(new_files) :
                           new_files[j].filename # added[i].filename
            /\ \A i, j \in 1..Len(added) :
                  i < j => FirstIndex(new_files, added[i].filename)
                              < FirstIndex(new_files, added[j].filename)
            /\ FilesCompared => added_files = (IF "files" \in saved THEN added ELSE <<>>)
            /\ (FilesCompared /\ AddedNames = {}) => FileCalls = <<>>

\* A turn ended whose only difference is the category of a file.
C10_Witness ==
    /\ pc = "turn_done"
    /\ old_files = <<aLecture>> /\ new_files = <<aTutorial>>
    /\ Text(new_description) = old_description
    /\ calls = <<>>

\* ----------------------------------------------------------------- C11

\* The step writes the description / the files record of the current course.
PutDescription == pc = "check_description" /\ "description" \in saved'
PutFiles == pc = "check_files" /\ "files" \in saved'

IsUpdate ==
    /\ InTurn
    /\ old_description \notin {None, ""}
    /\ new_description \notin {None, ""}
    /\ old_description # new_description

\* The content of a response has a non-empty field of the prefix.
HasField(ai, prefix) ==
    \E k \in 1..Len(ai.content) :
        ai.content[k].prefix = prefix /\ ai.content[k].text # ""

\* The summarization is disabled, or the call failed, or its content is
\* empty, or one of the two fields cannot be read from it.
SummaryUnavailable(ai) ==
    \/ ~USE_OPENAI
    \/ ai.raises
    \/ ai.content = <<>>
    \/ ~HasField(ai, "TITLE:")
    \/ ~HasField(ai, "BODY:")

\* C12: for an Updated change, diff_description returns the generic message
\* for every response that makes the summary unavailable, and once the
\* description branch has run the record is written and exactly one
\* description send was called, with the generic message or, when the
\* summarization is enabled, with the title and body of a full response;
\* the turn is not at the handler.
C12_SummaryFallback ==
    IsUpdate =>
        /\ \A ai \in AIResponses :
              SummaryUnavailable(ai) =>
                 diff_description(old_description, new_description, USE_OPENAI, ai)
                    = << "Description Updated",
                         "Course description has been updated. Check the course page for details." >>
        /\ pc # "check_description" =>
              /\ Len(DescriptionCalls) = 1
              /\ "description" \in saved
              /\ \/ /\ DescriptionCalls[1].title = "Description Updated"
                    /\ DescriptionCalls[1].body =
                          "Course description has been updated. Check the course page for details."
                 \/ /\ USE_OPENAI
                    /\ DescriptionCalls[1].title = "Exam moved"
                    /\ DescriptionCalls[1].body = "The exam is on Monday"

\* With the summarization enabled, an Updated change was sent with the
\* generic message.
C12_Witness ==
    /\ IsUpdate /\ USE_OPENAI
    /\ pc = "post"
    /\ send_args.category = "cms-description"
    /\ send_args.title = "Description Updated"

\* ------------------------------------------- the functions on their own

\* The state of a process that is not in the polling loop.
Idle ==
    /\ exitCause = ""
    /\ raised = ""
    /\ description_versions = [state |-> "missing", data |-> EmptyDescriptions]
    /\ files_versions = [state |-> "missing", data |-> EmptyFiles]
    /\ idx = 1
    /\ new_files = <<>>
    /\ old_files = <<>>
    /\ added_files = <<>>
    /\ file_idx = 0
    /\ attempt = 0
    /\ calls = <<>>
    /\ saved = {}
    /\ posts = 0
    /\ failures = 0
    /\ sleeps = <<>>
    /\ outcome = ""

\* send_notification(title, body, category, url) called on its own, under
\* any values of the configuration globals it reads.
InitSendCall ==
    /\ pc = "send_notification"
    /\ NOTIFICATION_ENDPOINT \in BOOLEAN
    /\ NOTIFICATIONS_API_KEY \in BOOLEAN
    /\ SEND_NOTIFICATIONS \in BOOLEAN
    /\ USE_OPENAI = FALSE
    /\ new_description = None
    /\ old_description = ""
    /\ send_args = [course |-> 0, title |-> "New file just dropped",
                    body |-> "a.pdf (Lecture)", category |-> "cms-files"]
    /\ send_ret = "returned"
    /\ Idle

\* diff_description(old_description, new_description) called on its own.
InitDiffCall ==
    /\ pc = "diff_description"
    /\ NOTIFICATION_ENDPOINT = TRUE
    /\ NOTIFICATIONS_API_KEY = TRUE
    /\ SEND_NOTIFICATIONS = TRUE
    /\ USE_OPENAI \in BOOLEAN
    /\ old_description \in FetchedDescriptions
    /\ new_description \in FetchedDescriptions
    /\ send_args = NoArgs
    /\ send_ret = ""
    /\ Idle

\* The call of diff_description: its result is kept as title and body.
DiffDescriptionCall ==
    /\ pc = "diff_description"
    /\ \E ai \in AIResponses :
          LET msg == diff_description(old_description, new_description,
                                      USE_OPENAI, ai)
          IN  send_args' = [NoArgs EXCEPT !.title = msg[1], !.body = msg[2]]
    /\ pc' = "diff_returned"
    /\ UNCHANGED << exitCause, raised, config, store, idx, locals, files_loop,
                    send_ret, attempt, calls, saved, send_history >>

UnitInit == Init \/ InitSendCall \/ InitDiffCall

UnitNext == Next \/ DiffDescriptionCall

\* The program, and its functions send_notification and diff_description
\* called on their own.
UnitSpec == UnitInit /\ [][UnitNext]_vars

\* The state belongs to a run of the program from its start.
ProgramRun == send_ret # "returned" /\ pc \notin {"diff_description", "diff_returned"}

\* ----------------------------------------------------------------- C13

C14_DisabledNoPost ==
    ~SEND_NOTIFICATIONS =>
        /\ posts = 0 /\ failures = 0 /\ sleeps = <<>> /\ attempt = 0
        /\ pc # "post"
        /\ outcome \in {"", "Disabled"}
        /\ (pc \in {"check_files", "next_file"} /\ calls # <<>>
               /\ send_args = calls[Len(calls)]) =>
              outcome = "Disabled" /\ pc = send_ret

\* A disabled description send returned to the turn.
C14_Witness ==
    /\ ~SEND_NOTIFICATIONS
    /\ pc = "check_files"
    /\ outcome = "Disabled"
    /\ Len(calls) = 1 /\ posts = 0

\* ----------------------------------------------------------------- C15

\* The title of the copy of a change from old to new, when it is fixed.
KindTitle(old, new, title) ==
    /\ (old \in {None, ""} /\ new \in {None, ""}) => title = "New Course Created"
    /\ (old \in {None, ""} /\ new \notin {None, ""}) => title = "New Description Added"
    /\ (old \notin {None, ""} /\ new \in {None, ""}) => title = "Description Removed"
    /\ (old \notin {None, ""} /\ new \notin {None, ""} /\ old # new) =>
          /\ title \in {"Description Updated", "Exam moved"}
          /\ ~USE_OPENAI => title = "Description Updated"

\* C15: the message diff_description returns for (old, new), called on its
\* own or by a turn, has the title of the kind of the change: Created when
\* both are absent or empty, Added when only old is, Removed when only new
\* is, and the Updated message when both are present and differ.
C15_Classification ==
    /\ pc = "diff_returned" =>
          KindTitle(old_description, new_description, send_args.title)
    /\ (InTurn /\ DescriptionCalls # <<>>) =>
          KindTitle(old_description, new_description, DescriptionCalls[1].title)

\* diff_description returned the Removed copy.
C15_Witness ==
    /\ pc = "diff_returned"
    /\ old_description = "Welcome" /\ new_description = None
    /\ send_args.title = "Description Removed"
    /\ send_args.body = "The course description has been removed."

\* ----------------------------------------------------------------- C16

\* The process always takes its next step: it is a single thread that is
\* never blocked for ever (every request has an answer or a timeout, every
\* sleep ends).
FairSpec == Spec /\ WF_vars(Next)

\* C16 as stated: once the courses are fetched the loop has no terminal
\* state: the process never ends of its own.
C16_NoTerminalState == pc = "exited" => raised # "SystemExit"

\* C16 as amended: every course of the list is checked again and again for
\* ever, whatever fetch, summarization or dispatch failures occur, unless
\* the process ends, and once the loop runs the process ends only by the
\* exit() of fetch_page on a 401 response.
C16_CheckedAgainUnlessExit ==
    /\ \A k \in 1..NumCourses :
          ([]<>(pc = "fetch_page" /\ idx = k)) \/ <>(pc = "exited")
    /\ [](pc = "exited" =>
             \/ exitCause \in {"config", "no courses", "uncaught"}
             \/ exitCause = "auth" /\ raised \in {"", "SystemExit"})

\* A new cycle begins after the turn of the last course raised.
C16_Witness ==
    /\ pc = "fetch_page" /\ idx = 1
    /\ raised = "ConnectionError"
    /\ load_description_version(courses[1]) = "Welcome"

\* ----------------------------------------------------------------- C17

\* Every send the turn owes has been made and has returned.
TurnComplete ==
    /\ ~InSend
    /\ DescriptionGuard(old_description, new_description)
          => Len(DescriptionCalls) = 1
    /\ "files" \in saved => Len(FileCalls) = Len(added_files)

\* The sends of a turn are those of its course, the description event first,
\* then the file events in the order of the added files.
SendsInOrder ==
    /\ \A i \in 1..Len(calls) : calls[i].course = current_course
    /\ Len(DescriptionCalls) <= 1
    /\ \A i, j \in 1..Len(calls) :
          (i < j /\ calls[i].category = "cms-files")
             => calls[j].category = "cms-files"
    /\ Len(FileCalls) = file_idx
    /\ file_idx <= Len(added_files)
    /\ \A i \in 1..Len(FileCalls) : FileCalls[i].body = FileBody(added_files[i])
    /\ InSend => send_args = calls[Len(calls)]

\* C17: processing is strictly sequential. A step of another course (the
\* index of the loop changes) is taken only when every send of the turn has
\* been made and has returned; a send begins and the store is written only
\* while no send is in progress; a fetch begins with nothing of an earlier
\* turn pending; the sends are the description event, then the file events
\* in order.
C17_StrictlySequential ==
    /\ [](ProgramRun => SendsInOrder)
    /\ []((ProgramRun /\ pc = "fetch_page")
             => (calls = <<>> /\ saved = {} /\ send_args = NoArgs))
    /\ [][ProgramRun =>
            /\ (idx' # idx \/ pc' = "sleep")
                  => (pc \in {"fetch_all_courses", "except", "sleep"}
                      \/ TurnComplete)
            /\ calls' # calls /\ calls' # <<>> => ~InSend
            /\ store' # store => ~InSend /\ idx' = idx
            /\ (InSend /\ ~InSend') => pc' = send_ret]_vars

\* The second file event of a turn that also sent a description event, its
\* send having slept between attempts, before the next course begins.
C17_Witness ==
    /\ pc = "next_file"
    /\ idx = 1
    /\ Len(calls) = 3
    /\ file_idx = 2
    /\ sleeps # <<>>
    /\ outcome = "Delivered"

\* ----------------------------------------------------------------- C18

\* From the call of a send on, whatever its outcome, the store holds the
\* fetched value the send is about.
PersistedBeforeDispatch ==
    /\ DescriptionCalls # <<>>
          => /\ "description" \in saved
             /\ load_description_version(current_course) = new_description
    /\ FileCalls # <<>>
          => /\ "files" \in saved
             /\ load_files_version(current_course) = new_files

\* A turn that fetches what the store holds sends nothing about it and
\* writes nothing.
SameSnapshotSilent ==
    /\ (InTurn /\ new_description = old_description)
          => /\ DescriptionCalls = <<>>
             /\ "description" \notin saved
             /\ load_description_version(current_course) = old_description
    /\ (InTurn /\ new_files = old_files)
          => /\ FileCalls = <<>>
             /\ "files" \notin saved
             /\ load_files_version(current_course) = old_files

C19_EmptyNeverOverwrites ==
    /\ (InTurn /\ ~TruthyStr(new_description))
          => /\ "description" \notin saved
             /\ DescriptionCalls = <<>>
             /\ load_description_version(current_course) = old_description
    /\ (InTurn /\ ~TruthyList(new_files))
          => /\ "files" \notin saved
             /\ FileCalls = <<>>
             /\ added_files = <<>>
             /\ load_files_version(current_course) = old_files

\* The end of a turn that fetched no description and no file for a course
\* whose records hold a description and files.
C19_Witness ==
    /\ pc = "turn_done"
    /\ old_description = "Welcome"
    /\ new_description = None
    /\ old_files # <<>>
    /\ new_files = <<>>
    /\ load_description_version(current_course) = "Welcome"
    /\ load_files_version(current_course) = old_files

====
